---- MODULE Spec2Model ----
(***************************************************************************)
(* Model of src/app.py: the ClickHouse <-> flat file transfer service.     *)
(*                                                                         *)
(* The store (tables), the file system (files) and the activation record   *)
(* of every running ingest() call are the state.  One action models one    *)
(* stretch of a handler between two external calls (connection, query,     *)
(* file read/write, DDL, insert); the except/finally clauses that end a    *)
(* handler run in the same step as the call that raised.                   *)
(*                                                                         *)
(* Data is kept concrete where the code looks at it: a file is a sequence  *)
(* of lines, a line a sequence of cells; a frame is a list of column names *)
(* and a list of rows; a table is a column list and a row count.           *)
(***************************************************************************)
EXTENDS Integers, Sequences, FiniteSets, TLC

\* ------------------------------------------------------------------ bounds
MaxRows == 1
NumReq == 2
MaxTransfers == 2
MaxCols == 2

Req == 1..NumReq

Range(s) == {s[i] : i \in 1..Len(s)}

\* ------------------------------------------------------------- exceptions
\* A Python exception: its class, its message template, the column names the
\* message lists, and whether the message embeds the text of an underlying
\* exception (f"...{e}").
Exc(cls, msg, cols, leak) == [cls |-> cls, msg |-> msg, cols |-> cols, leak |-> leak]
NoExc == Exc("none", "", <<>>, FALSE)

\* ------------------------------------------------------------ path checks
BASE_DIR == "data_files"
UserPaths == {"", "../x", "missing.csv", "subdir", "data.csv"}
FileNames == {"data.csv"}
IsDirectory(p) == p = "subdir"
HasTraversal(p) == p = "../x"

validate_and_normalize_path(user_path) ==
    IF user_path = ""
    THEN [exc |-> Exc("ValueError", "File path cannot be empty.", <<>>, FALSE),
          path |-> ""]
    ELSE IF HasTraversal(user_path)
    THEN [exc |-> Exc("ValueError", "Invalid file path format", <<>>, FALSE),
          path |-> ""]
    ELSE [exc |-> NoExc, path |-> user_path]

\* ------------------------------------------------------------------ token
Tokens == {"", "valid", "expired", "malformed"}

\* The exception validate_jwt raises for the token, NoExc when it returns.
validate_jwt_exc(token) ==
    CASE token = "expired" ->
           Exc("ValueError", "Authentication token has expired.", <<>>, FALSE)
      [] token = "malformed" ->
           Exc("ValueError", "Authentication token is invalid", <<>>, TRUE)
      [] OTHER -> NoExc

validate_jwt(token) == token = "valid"

\* ------------------------------------------------------------- connection
HTTP_PORTS == {8123, 8443}
Ports == {8123, 8443, 9000}
RequiredKeys == {"host", "port", "database", "user"}

\* A connection config: which required key is missing or empty ("none": all
\* are there), whether a password is given, the token ("": none), the port.
ConnConfigs ==
    [missing : RequiredKeys \cup {"none"}, password : BOOLEAN,
     jwt : Tokens, port : Ports]

\* What the driver does on get_client and on ping: "ok", or the exception it
\* raises (a driver Error with one of the texts the code looks for, a driver
\* Error with another text, or an exception of another class).
DriverFaults == {"auth", "refused", "unknown_db", "driver", "other"}
ConnectOutcomes ==
    {<<"ok", "ok">>} \cup {<<f, "-">> : f \in DriverFaults}
        \cup {<<"ok", f>> : f \in DriverFaults}

NoClient == [present |-> FALSE, password |-> FALSE, auth_header |-> FALSE]

\* Variant for C5: the bearer header is used on every port.
port_is_http_any(port) == TRUE

\* if connect_args['port'] in [8123, 8443]   (line 119)
port_is_http(port) == port \in HTTP_PORTS

\* Variant for C18: the password stays in the arguments next to the header.
bearer_header_args_password_kept(password) ==
    [present |-> TRUE, password |-> password, auth_header |-> TRUE]

\* connect_args['http_headers'] = {'Authorization': f'Bearer {jwt_token}'};
\* connect_args.pop('password', None)   (120-122)
bearer_header_args(password) ==
    [present |-> TRUE, password |-> FALSE, auth_header |-> TRUE]

\* Variant for C19: the token is sent as a header on the native port too.
native_password_args_with_header(jwt_token) ==
    [present |-> TRUE, password |-> TRUE, auth_header |-> jwt_token # ""]

\* connect_args['password'] = password   (126-128)
native_password_args(jwt_token) ==
    [present |-> TRUE, password |-> TRUE, auth_header |-> FALSE]

\* Variant for C17: the token is validated only where it is sent.
connect_args_token_last(config) ==
    IF config.missing # "none"
    THEN [exc |-> Exc("ValueError", "Missing required ClickHouse connection parameters", <<>>, FALSE),
          args |-> NoClient]
    ELSE IF ~config.password /\ config.jwt = ""
    THEN [exc |-> Exc("ValueError", "Either password or JWT token must be provided", <<>>, FALSE),
          args |-> NoClient]
    ELSE IF config.jwt # ""
    THEN IF port_is_http(config.port)
         THEN IF validate_jwt_exc(config.jwt) # NoExc
              THEN [exc |-> validate_jwt_exc(config.jwt), args |-> NoClient]
              ELSE [exc |-> NoExc, args |-> bearer_header_args(config.password)]
         ELSE IF config.password
         THEN [exc |-> NoExc, args |-> native_password_args(config.jwt)]
         ELSE [exc |-> Exc("ValueError", "JWT authentication via native protocol likely requires password", <<>>, FALSE),
               args |-> NoClient]
    ELSE [exc |-> NoExc,
          args |-> [present |-> TRUE, password |-> TRUE, auth_header |-> FALSE]]

\* Variant for C20: the token is validated before the config is checked.
connect_args_token_first(config) ==
    IF config.jwt # "" /\ validate_jwt_exc(config.jwt) # NoExc
    THEN [exc |-> validate_jwt_exc(config.jwt), args |-> NoClient]
    ELSE IF config.missing # "none"
    THEN [exc |-> Exc("ValueError", "Missing required ClickHouse connection parameters", <<>>, FALSE),
          args |-> NoClient]
    ELSE IF ~config.password /\ config.jwt = ""
    THEN [exc |-> Exc("ValueError", "Either password or JWT token must be provided", <<>>, FALSE),
          args |-> NoClient]
    ELSE IF config.jwt # ""
    THEN IF port_is_http(config.port)
         THEN [exc |-> NoExc, args |-> bearer_header_args(config.password)]
         ELSE IF config.password
         THEN [exc |-> NoExc, args |-> native_password_args(config.jwt)]
         ELSE [exc |-> Exc("ValueError", "JWT authentication via native protocol likely requires password", <<>>, FALSE),
               args |-> NoClient]
    ELSE [exc |-> NoExc,
          args |-> [present |-> TRUE, password |-> TRUE, auth_header |-> FALSE]]

\* connect_args as built by lines 99-138, or the ValueError raised on the way.
connect_args(config) ==
    IF config.missing # "none"
    THEN [exc |-> Exc("ValueError", "Missing required ClickHouse connection parameters", <<>>, FALSE),
          args |-> NoClient]
    ELSE IF ~config.password /\ config.jwt = ""
    THEN [exc |-> Exc("ValueError", "Either password or JWT token must be provided", <<>>, FALSE),
          args |-> NoClient]
    ELSE IF config.jwt # ""
    THEN IF validate_jwt_exc(config.jwt) # NoExc
         THEN [exc |-> validate_jwt_exc(config.jwt), args |-> NoClient]
         ELSE IF ~validate_jwt(config.jwt)
         THEN [exc |-> Exc("ValueError", "JWT token validation failed.", <<>>, FALSE),
               args |-> NoClient]
         ELSE IF port_is_http(config.port)
         THEN [exc |-> NoExc, args |-> bearer_header_args(config.password)]
         ELSE IF config.password
         THEN [exc |-> NoExc, args |-> native_password_args(config.jwt)]
         ELSE [exc |-> Exc("ValueError", "JWT authentication via native protocol likely requires password", <<>>, FALSE),
               args |-> NoClient]
    ELSE [exc |-> NoExc,
          args |-> [present |-> TRUE, password |-> TRUE, auth_header |-> FALSE]]

\* The except clauses of get_clickhouse_client (lines 153-170) for an
\* exception the driver raised inside the try block.
connection_error(fault) ==
    CASE fault = "auth" ->
           Exc("ConnectionError", "ClickHouse authentication failed", <<>>, FALSE)
      [] fault = "refused" ->
           Exc("ConnectionError", "Could not connect to ClickHouse", <<>>, FALSE)
      [] fault = "unknown_db" ->
           Exc("ValueError", "ClickHouse database not found", <<>>, FALSE)
      [] fault = "driver" ->
           Exc("ConnectionError", "ClickHouse driver error", <<>>, TRUE)
      [] OTHER ->
           Exc("ConnectionError", "An unexpected error occurred during connection setup", <<>>, TRUE)

Op(op, res) == [op |-> op, res |-> res]

\* get_clickhouse_client(config) under the driver outcome `out`: the exception
\* it raises or the client it returns, the calls it made (created: get_client
\* returned a session), the class of the exception first raised inside it,
\* and the connect_args passed to get_client (NoClient: it was not called).
get_clickhouse_client(config, out) ==
    LET pre == connect_args(config) IN
    IF pre.exc # NoExc
    THEN [exc |-> pre.exc, client |-> NoClient, created |-> FALSE, ops |-> <<>>,
          origin |-> "ValueError", args |-> NoClient]
    ELSE IF out[1] # "ok"
    THEN [exc |-> connection_error(out[1]), client |-> NoClient, created |-> FALSE,
          ops |-> <<Op("get_client", "error")>>,
          origin |-> IF out[1] = "other" THEN "Other" ELSE "DriverError",
          args |-> pre.args]
    ELSE IF out[2] # "ok"
    THEN [exc |-> connection_error(out[2]), client |-> NoClient, created |-> TRUE,
          ops |-> <<Op("get_client", "ok"), Op("ping", "error")>>,
          origin |-> IF out[2] = "other" THEN "Other" ELSE "DriverError",
          args |-> pre.args]
    ELSE [exc |-> NoExc, client |-> pre.args, created |-> TRUE,
          ops |-> <<Op("get_client", "ok"), Op("ping", "ok")>>,
          origin |-> "none", args |-> pre.args]

\* Every way a call of get_clickhouse_client can end, over all configs and
\* all driver outcomes.
ConnectResults ==
    {get_clickhouse_client(config, out) : config \in ConnConfigs, out \in ConnectOutcomes}

\* ------------------------------------------------------------ type mapper
\* The dtypes of a frame's columns; category and timedelta64 are dtypes that
\* none of the pd.api.types tests of the mapper accepts.
Dtypes == {"int64", "float64", "bool", "datetime64", "object", "string",
           "category", "timedelta64"}

\* Variant for C11: a boolean column is taken for an integer one.
pandas_to_clickhouse_type_bool_as_int(dtype) ==
    CASE dtype \in {"int64", "bool"} -> "Int64"
      [] dtype = "float64" -> "Float64"
      [] dtype = "datetime64" -> "DateTime"
      [] OTHER -> "String"

\* The if/elif chain of lines 302-317, the first test that holds deciding.
pandas_to_clickhouse_type(dtype) ==
    CASE dtype = "int64" -> "Int64"
      [] dtype = "float64" -> "Float64"
      [] dtype = "bool" -> "UInt8"
      [] dtype = "datetime64" -> "DateTime"
      [] dtype \in {"string", "object"} -> "String"
      [] OTHER -> "String"

\* ------------------------------------------------------------------ frames
\* A DataFrame: column labels in order, and rows of cells (text as it stands
\* in a file).  len(df) is Len(df.rows).
Frame(cols, rows) == [cols |-> cols, rows |-> rows]
NoFrame == Frame(<<>>, <<>>)

IntCells == {"1", "2"}
FloatCells == {"1.5"}
BoolCells == {"True", "False"}

\* The dtype pandas infers for a parsed column.
InferDtype(cells) ==
    IF cells = <<>> THEN "object"
    ELSE IF \A i \in 1..Len(cells) : cells[i] \in IntCells THEN "int64"
    ELSE IF \A i \in 1..Len(cells) : cells[i] \in IntCells \cup FloatCells THEN "float64"
    ELSE IF \A i \in 1..Len(cells) : cells[i] \in BoolCells THEN "bool"
    ELSE "object"

Column(df, j) == [i \in 1..Len(df.rows) |-> df.rows[i][j]]

\* df.dtypes.items(): (label, dtype) in column order.
dtypes(df) == [j \in 1..Len(df.cols) |->
                 [name |-> df.cols[j], dtype |-> InferDtype(Column(df, j))]]

IndexOf(s, x) == CHOOSE i \in 1..Len(s) : s[i] = x

\* Variant for C21: the selected columns are kept in the order of the file.
project_file_order(df, selected) ==
    Frame(SelectSeq(df.cols, LAMBDA col : col \in Range(selected)),
          [i \in 1..Len(df.rows) |->
             [j \in 1..Len(SelectSeq(df.cols, LAMBDA col : col \in Range(selected))) |->
                df.rows[i][IndexOf(df.cols,
                    SelectSeq(df.cols, LAMBDA col : col \in Range(selected))[j])]]])

\* df[selected_columns]
project(df, selected) ==
    Frame(selected,
          [i \in 1..Len(df.rows) |->
             [j \in 1..Len(selected) |-> df.rows[i][IndexOf(df.cols, selected[j])]]])

missing_cols(selected, df) ==
    SelectSeq(selected, LAMBDA col : col \notin Range(df.cols))

\* ------------------------------------------------------------- file codec
\* A file: whether it exists, the separator its lines were written with and
\* its lines, each a sequence of cells.
NoFile == [exists |-> FALSE, sep |-> "", lines |-> <<>>]
File(sep, lines) == [exists |-> TRUE, sep |-> sep, lines |-> lines]

Delimiters == {"", ",", ";"}

\* Variant for C6: the header row is written whatever include_header says.
to_csv_always_header(df, sep, include_header) ==
    File(sep, <<df.cols>> \o df.rows)

\* df.to_csv(path, sep=sep, index=False, header=include_header, quoting=1)
to_csv(df, sep, include_header) ==
    File(sep, (IF include_header THEN <<df.cols>> ELSE <<>>) \o df.rows)

\* A line split at `sep`: the cells it was written with, or one cell holding
\* the whole line when it was written with another separator.
SplitLine(file, sep, i) ==
    IF sep = file.sep \/ Len(file.lines[i]) <= 1 THEN file.lines[i] ELSE <<"~">>

\* pd.read_csv(path, sep=sep, header=0 if has_header else None): the frame, or
\* EmptyDataError for a file with no line at all.
read_csv(file, sep, has_header) ==
    LET parsed == [i \in 1..Len(file.lines) |-> SplitLine(file, sep, i)] IN
    IF Len(file.lines) = 0
    THEN [exc |-> "EmptyDataError", df |-> NoFrame]
    ELSE IF has_header
    THEN [exc |-> "none", df |-> Frame(parsed[1], Tail(parsed))]
    ELSE [exc |-> "none",
          df |-> Frame([j \in 1..Len(parsed[1]) |-> ToString(j - 1)], parsed)]

\* ------------------------------------------------------------------ store
TableNames == {"src", "tgt", "t_-1"}
NoTable == [exists |-> FALSE, cols |-> <<>>, nrows |-> 0]
Table(cols, nrows) == [exists |-> TRUE, cols |-> cols, nrows |-> nrows]
SrcCols == <<[name |-> "a", type |-> "Int64"], [name |-> "b", type |-> "String"]>>

TableAt(tabs, t) == IF t \in DOMAIN tabs THEN tabs[t] ELSE NoTable
ColNames(tab) == [j \in 1..Len(tab.cols) |-> tab.cols[j].name]
TypeOf(tab, col) == tab.cols[IndexOf(ColNames(tab), col)].type

\* The text of a stored value of a native type.
CellOf(type) ==
    CASE type = "Int64" -> "1"
      [] type = "Float64" -> "1.5"
      [] type = "UInt8" -> "1"
      [] OTHER -> "x"

\* SELECT "c1", ... FROM "db"."t": whether the store can answer, and the frame.
query_ok(tab, selected_columns) ==
    tab.exists /\ \A j \in 1..Len(selected_columns) :
                      selected_columns[j] \in Range(ColNames(tab))

query_df(tab, selected_columns) ==
    Frame(selected_columns,
          [i \in 1..tab.nrows |->
             [j \in 1..Len(selected_columns) |-> CellOf(TypeOf(tab, selected_columns[j]))]])

\* Variant for C10: the columns of the statement in reverse order.
cols_with_types_reversed(df) ==
    [j \in 1..Len(df.cols) |->
       [name |-> dtypes(df)[Len(df.cols) + 1 - j].name,
        type |-> pandas_to_clickhouse_type(dtypes(df)[Len(df.cols) + 1 - j].dtype)]]

\* The column list of the CREATE TABLE statement built from df.dtypes.
cols_with_types(df) ==
    [j \in 1..Len(df.cols) |->
       [name |-> dtypes(df)[j].name,
        type |-> pandas_to_clickhouse_type(dtypes(df)[j].dtype)]]

\* CREATE TABLE (no IF NOT EXISTS): fails when the table is there.
\* Variant for C4: CREATE TABLE IF NOT EXISTS.
create_ok_if_not_exists(tab) == TRUE

create_ok(tab) == ~tab.exists

\* insert_df: the store takes the frame when the table is there and has every
\* column of the frame.
insert_ok(tab, df) ==
    tab.exists /\ \A j \in 1..Len(df.cols) : df.cols[j] \in Range(ColNames(tab))

\* system.columns of a table ordered by position: the rows get_columns reads.
system_columns(tab) == IF tab.exists THEN tab.cols ELSE <<>>

\* get_columns for source_type 'clickhouse' on an open connection: the error,
\* or the column descriptors.
get_columns(tab) ==
    IF system_columns(tab) = <<>>
    THEN [exc |-> Exc("ValueError", "Table not found or has no columns", <<>>, FALSE),
          columns |-> <<>>]
    ELSE [exc |-> NoExc,
          columns |-> [j \in 1..Len(system_columns(tab)) |->
                         [name |-> system_columns(tab)[j].name,
                          type |-> system_columns(tab)[j].type,
                          selected |-> TRUE]]]

\* --------------------------------------------------------------- requests
\* The JSON body of an /ingest call.  The fields of the other flow keep the
\* defaults config.get gives them.
Request(flow, columns, table, file, delimiter, header, create) ==
    [flow_type |-> flow, columns |-> columns, table |-> table, file |-> file,
     delimiter |-> delimiter, header |-> header, target_create |-> create]
NoRequest == Request("", <<>>, "", "", "", FALSE, FALSE)

\* table: source_table / target_table.  file: target_file / source_file.
\* delimiter: target_delimiter / source_delimiter.  header: include_header /
\* source_has_header.
SelectedCH == {<<>>, <<"a", "b">>, <<"b", "a">>}
SelectedFF == {<<>>, <<"b", "a">>, <<"b">>, <<"a", "c">>}
SourceTables == {"", "src", "nosuch"}
TargetTables == {"", "tgt", "t-1", "t_-1"}
TargetFiles == {"", "../x", "data.csv"}
SourceFiles == UserPaths

\* The characters of the table names of the model.
Chars(name) ==
    CASE name = "src" -> <<"s", "r", "c">>
      [] name = "tgt" -> <<"t", "g", "t">>
      [] name = "nosuch" -> <<"n", "o", "s", "u", "c", "h">>
      [] name = "t-1" -> <<"t", "-", "1">>
      [] name = "t_-1" -> <<"t", "_", "-", "1">>
      [] OTHER -> <<>>
AlnumChars == {"s", "r", "c", "t", "g", "n", "o", "u", "h", "1"}

\* str.isalnum(): every character is alphanumeric and there is at least one.
IsAlnum(name) ==
    /\ Len(Chars(name)) > 0
    /\ \A i \in 1..Len(Chars(name)) : Chars(name)[i] \in AlnumChars
\* '_' in name
HasUnderscore(name) == \E i \in 1..Len(Chars(name)) : Chars(name)[i] = "_"

Requests ==
    {Request("ch_to_ff", c, t, f, d, h, FALSE) :
        c \in SelectedCH, t \in SourceTables, f \in TargetFiles,
        d \in Delimiters, h \in BOOLEAN}
    \cup
    {Request("ff_to_ch", x[1], x[2], x[3], x[4], x[5], x[6]) :
        x \in SelectedFF \X TargetTables \X SourceFiles \X Delimiters
                \X BOOLEAN \X BOOLEAN}
    \cup {Request("copy", <<>>, "", "", "", FALSE, FALSE)}

\* The requests of the creation race: FileToStore of the same file into the
\* same table.
RaceRequests ==
    {Request("ff_to_ch", <<>>, "tgt", "data.csv", ",", h, c) :
        h \in BOOLEAN, c \in BOOLEAN}

\* -------------------------------------------------------------- responses
NoResponse == [sent |-> FALSE, success |-> FALSE, status |-> 0,
               records_processed |-> 0, error |-> "", cols |-> <<>>, leak |-> FALSE]
GENERIC_ERROR == "An unexpected server error occurred during ingestion."
HandledClasses ==
    {"ValueError", "ConnectionError", "FileNotFoundError", "DriverError", "RuntimeError"}

\* return jsonify({'success': True, 'records_processed': n})
ingest_return(n) ==
    [sent |-> TRUE, success |-> TRUE, status |-> 200, records_processed |-> n,
     error |-> "", cols |-> <<>>, leak |-> FALSE]

\* Variant for C8: a failure reports no record count.
ingest_except_no_count(exc, processed_count) ==
    IF exc.cls \in HandledClasses
    THEN [sent |-> TRUE, success |-> FALSE, status |-> 400,
          records_processed |-> 0,
          error |-> exc.msg, cols |-> exc.cols, leak |-> exc.leak]
    ELSE [sent |-> TRUE, success |-> FALSE, status |-> 500,
          records_processed |-> 0,
          error |-> GENERIC_ERROR, cols |-> <<>>, leak |-> FALSE]

\* The two except clauses that end ingest().
ingest_except(exc, processed_count) ==
    IF exc.cls \in HandledClasses
    THEN [sent |-> TRUE, success |-> FALSE, status |-> 400,
          records_processed |-> processed_count,
          error |-> exc.msg, cols |-> exc.cols, leak |-> exc.leak]
    ELSE [sent |-> TRUE, success |-> FALSE, status |-> 500,
          records_processed |-> processed_count,
          error |-> GENERIC_ERROR, cols |-> <<>>, leak |-> FALSE]

\* ----------------------------------------------------------------- state
VARIABLES
    tables,   \* the store: table name -> table
    files,    \* the allowed data directory: file name -> file
    served,   \* transfers accepted so far
    ing,      \* worker -> the activation record of its ingest() call
    gt,       \* the activation record of the get_tables() call
    ddl       \* the loop that builds the column list of a CREATE TABLE

vars == <<tables, files, served, ing, gt, ddl>>

NoRaise == [cls |-> "none", site |-> ""]

\* pc: where the call stands.  session: the store session get_client made for
\* the call ("none", "open", "closed").  ops: the external calls made so far.
\* raised: the class of the exception first raised, and where.
IdleCall ==
    [pc |-> "idle", req |-> NoRequest, df |-> NoFrame, processed_count |-> 0,
     client |-> NoClient, table_exists |-> FALSE, session |-> "none",
     ops |-> <<>>, resp |-> NoResponse, raised |-> NoRaise]

\* finally: if client: client.close()
ingest_finally(c) ==
    IF c.client.present
    THEN [c EXCEPT !.session = "closed", !.ops = @ \o <<Op("close", "ok")>>]
    ELSE c

\* Variant for C23: the call ends on the exception without a response.
Raise_no_response(c, site, origin, exc) ==
    ingest_finally([c EXCEPT !.pc = "failed",
                             !.raised = [cls |-> origin, site |-> site]])

\* An exception of class `origin` raised at `site` reaches the except clauses
\* of ingest() as `exc`.
Raise(c, site, origin, exc) ==
    ingest_finally([c EXCEPT !.pc = "failed",
                             !.raised = [cls |-> origin, site |-> site],
                             !.resp = ingest_except(exc, c.processed_count)])

Return200(c, n) ==
    ingest_finally([c EXCEPT !.pc = "done", !.resp = ingest_return(n)])

PathExists(p) == IsDirectory(p) \/ (p \in FileNames /\ files[p].exists)
FileAt(p) == IF p \in FileNames THEN files[p] ELSE NoFile

\* Variant for C7: the query is issued without connecting first.
validate_ch_to_ff_no_connect(c) ==
    LET q == c.req
        p == validate_and_normalize_path(q.file) IN
    IF q.columns = <<>>
    THEN Raise(c, "validate", "ValueError",
               Exc("ValueError", "No columns selected for ingestion.", <<>>, FALSE))
    ELSE IF q.table = ""
    THEN Raise(c, "validate", "ValueError",
               Exc("ValueError", "Source ClickHouse table not specified.", <<>>, FALSE))
    ELSE IF q.delimiter = ""
    THEN Raise(c, "validate", "ValueError",
               Exc("ValueError", "Target file delimiter not specified.", <<>>, FALSE))
    ELSE IF p.exc # NoExc
    THEN Raise(c, "validate", "ValueError", p.exc)
    ELSE [c EXCEPT !.pc = "query"]

\* ------------------------------------------------------ ingest: validation
\* Input validation of the ClickHouse -> flat file flow (lines 343-362).
validate_ch_to_ff(c) ==
    LET q == c.req
        p == validate_and_normalize_path(q.file) IN
    IF q.columns = <<>>
    THEN Raise(c, "validate", "ValueError",
               Exc("ValueError", "No columns selected for ingestion.", <<>>, FALSE))
    ELSE IF q.table = ""
    THEN Raise(c, "validate", "ValueError",
               Exc("ValueError", "Source ClickHouse table not specified.", <<>>, FALSE))
    ELSE IF q.delimiter = ""
    THEN Raise(c, "validate", "ValueError",
               Exc("ValueError", "Target file delimiter not specified.", <<>>, FALSE))
    ELSE IF p.exc # NoExc
    THEN Raise(c, "validate", "ValueError", p.exc)
    ELSE [c EXCEPT !.pc = "connect"]

\* Input validation of the flat file -> ClickHouse flow (lines 397-409).
validate_ff_to_ch(c) ==
    LET q == c.req
        p == validate_and_normalize_path(q.file) IN
    IF q.delimiter = ""
    THEN Raise(c, "validate", "ValueError",
               Exc("ValueError", "Source file delimiter not specified.", <<>>, FALSE))
    ELSE IF q.table = ""
    THEN Raise(c, "validate", "ValueError",
               Exc("ValueError", "Target ClickHouse table not specified.", <<>>, FALSE))
    ELSE IF p.exc # NoExc
    THEN Raise(c, "validate", "ValueError", p.exc)
    ELSE IF ~PathExists(p.path)
    THEN Raise(c, "validate", "FileNotFoundError",
               Exc("FileNotFoundError", "Source file not found", <<>>, FALSE))
    ELSE IF IsDirectory(p.path)
    THEN Raise(c, "validate", "ValueError",
               Exc("ValueError", "Source path is not a file", <<>>, FALSE))
    ELSE [c EXCEPT !.pc = "read"]

\* ingest() from its entry to the end of input validation.
ingest_validate(q) ==
    LET c == [IdleCall EXCEPT !.req = q] IN
    CASE q.flow_type = "ch_to_ff" -> validate_ch_to_ff(c)
      [] q.flow_type = "ff_to_ch" -> validate_ff_to_ch(c)
      [] OTHER -> Raise(c, "validate", "ValueError",
                        Exc("ValueError", "Invalid flow_type specified", <<>>, FALSE))

Accept(r, q) ==
    /\ ing[r].pc = "idle"
    /\ served < MaxTransfers
    /\ served' = served + 1
    /\ ing' = [ing EXCEPT ![r] = ingest_validate(q)]
    /\ UNCHANGED <<tables, files, gt, ddl>>

\* A worker takes a request of any shape.
Validate(r) == \E q \in Requests : Accept(r, q)

\* A worker takes one of the requests of the creation race.
ValidateRace(r) == \E q \in RaceRequests : Accept(r, q)

\* ------------------------------------------------------ ingest: connecting
\* The check of the target table name that follows the connection (449-451).
table_name_ok(target_table) == ~(~IsAlnum(target_table) /\ ~HasUnderscore(target_table))

after_connect(c) ==
    IF c.req.flow_type = "ch_to_ff"
    THEN [c EXCEPT !.pc = "query"]
    ELSE IF ~table_name_ok(c.req.table)
    THEN Raise(c, "table_name", "ValueError",
               Exc("ValueError", "Invalid target table name", <<>>, FALSE))
    ELSE [c EXCEPT !.pc = "probe"]

\* client = get_clickhouse_client(config)   (line 364, line 446)
Connect(r) ==
    /\ ing[r].pc = "connect"
    /\ \E res \in ConnectResults :
         LET c1 == [ing[r] EXCEPT !.ops = @ \o res.ops,
                                  !.session = IF res.created THEN "open" ELSE @]
         IN ing' = [ing EXCEPT ![r] =
                      IF res.exc # NoExc
                      THEN Raise(c1, "connect", res.origin, res.exc)
                      ELSE after_connect([c1 EXCEPT !.client = res.client])]
    /\ UNCHANGED <<tables, files, served, gt, ddl>>

\* --------------------------------------------------- ClickHouse -> flat file
StoreFaults == {"ok", "driver", "other"}
DRIVER_ERROR == Exc("DriverError", "ClickHouse driver error text", <<>>, TRUE)
OTHER_ERROR == Exc("Other", "internal error text", <<>>, TRUE)

\* Variant for C26: a failed read is passed over and the flow goes on to
\* write the frame it has.
query_except_goes_on(c, origin, exc) == [c EXCEPT !.pc = "write"]

\* An exception of query_df (370) is not caught inside the flow: it leaves
\* ingest's try block for the handlers.
query_except(c, origin, exc) == Raise(c, "query", origin, exc)

\* df = client.query_df(select_query); processed_count = len(df)  (365-372)
Query(r) ==
    /\ ing[r].pc = "query"
    /\ \E fault \in StoreFaults :
         LET c == ing[r]
             tab == TableAt(tables, c.req.table)
             df == query_df(tab, c.req.columns)
         IN ing' = [ing EXCEPT ![r] =
              IF fault = "other"
              THEN query_except([c EXCEPT !.ops = @ \o <<Op("query_df", "error")>>],
                                "Other", OTHER_ERROR)
              ELSE IF fault = "driver" \/ ~query_ok(tab, c.req.columns)
              THEN query_except([c EXCEPT !.ops = @ \o <<Op("query_df", "error")>>],
                                "DriverError", DRIVER_ERROR)
              ELSE [c EXCEPT !.ops = @ \o <<Op("query_df", "ok")>>,
                             !.df = df, !.processed_count = Len(df.rows),
                             !.pc = "write"]]
    /\ UNCHANGED <<tables, files, served, gt, ddl>>

FileFaults == {"ok", "ioerror", "other"}

\* What a failed write leaves at the path: the file as it was, or a file
\* opened for writing and cut short.
AfterFailedWrite(p, sep) ==
    IF p \in FileNames THEN {files[p], File(sep, <<>>)} ELSE {NoFile}

\* df.to_csv(...) and the return of the flow (374-385).
Write(r) ==
    /\ ing[r].pc = "write"
    /\ \E fault \in FileFaults :
         LET c == ing[r]
             p == c.req.file
             c1 == [c EXCEPT !.ops = @ \o <<Op("to_csv", IF fault = "ok" /\ p \in FileNames
                                                          THEN "ok" ELSE "error")>>]
         IN IF fault = "ok" /\ p \in FileNames
            THEN /\ files' = [files EXCEPT ![p] = to_csv(c.df, c.req.delimiter, c.req.header)]
                 /\ ing' = [ing EXCEPT ![r] = Return200(c1, c.processed_count)]
            ELSE /\ \E left \in AfterFailedWrite(p, c.req.delimiter) :
                       files' = [f \in FileNames |-> IF f = p THEN left ELSE files[f]]
                 /\ ing' = [ing EXCEPT ![r] =
                      IF fault = "other"
                      THEN Raise(c1, "write", "Other",
                                 Exc("RuntimeError", "An unexpected error occurred while writing the output file.", <<>>, FALSE))
                      ELSE Raise(c1, "write", "IOError",
                                 Exc("RuntimeError", "Failed to write data to file", <<>>, FALSE))]
    /\ UNCHANGED <<tables, served, gt, ddl>>

\* --------------------------------------------------- flat file -> ClickHouse
\* except Exception as pd_err (441-443): whatever was raised inside the try
\* block of the read, the ValueError of line 425 included, leaves as this.
read_except(e) ==
    Exc("ValueError", "Error reading CSV file. Check format, encoding, and delimiter.", <<>>, FALSE)

\* raise ValueError(f"Selected columns not found in file header: {missing_cols}")
selected_columns_error(missing) ==
    Exc("ValueError", "Selected columns not found in file header", missing, FALSE)

\* Variant for C22: the selection is applied to a file without a header too.
select_columns_any_header(df, source_has_header, selected_columns) ==
    IF selected_columns # <<>>
    THEN IF missing_cols(selected_columns, df) # <<>>
         THEN [exc |-> selected_columns_error(missing_cols(selected_columns, df)),
               df |-> df]
         ELSE [exc |-> NoExc, df |-> project(df, selected_columns)]
    ELSE [exc |-> NoExc, df |-> df]

\* Column selection on the parsed frame (421-430): the exception raised, or
\* the frame kept.
select_columns(df, source_has_header, selected_columns) ==
    IF source_has_header /\ selected_columns # <<>>
    THEN IF missing_cols(selected_columns, df) # <<>>
         THEN [exc |-> selected_columns_error(missing_cols(selected_columns, df)),
               df |-> df]
         ELSE [exc |-> NoExc, df |-> project(df, selected_columns)]
    ELSE [exc |-> NoExc, df |-> df]

\* Variant for C1: the empty frame is not short-circuited.
nothing_to_ingest_never(processed_count) == FALSE

\* if processed_count == 0: return success with 0 records   (432-435)
nothing_to_ingest(processed_count) == processed_count = 0

ReadFaults == {"ok", "other"}

\* The try block of the read (411-443).
Read(r) ==
    /\ ing[r].pc = "read"
    /\ \E fault \in ReadFaults :
         LET c == ing[r]
             parsed == read_csv(FileAt(c.req.file), c.req.delimiter, c.req.header)
             sel == select_columns(parsed.df, c.req.header, c.req.columns)
             c1 == [c EXCEPT !.ops = @ \o <<Op("read_csv", IF fault = "ok" THEN "ok" ELSE "error")>>]
         IN ing' = [ing EXCEPT ![r] =
              IF fault = "other"
              THEN Raise(c1, "read", "Other", read_except(OTHER_ERROR))
              ELSE IF parsed.exc = "EmptyDataError"
              THEN Return200(c1, 0)
              ELSE IF sel.exc # NoExc
              THEN Raise(c1, "select", "ValueError", read_except(sel.exc))
              ELSE IF nothing_to_ingest(Len(sel.df.rows))
              THEN Return200([c1 EXCEPT !.df = sel.df], 0)
              ELSE [c1 EXCEPT !.df = sel.df, !.processed_count = Len(sel.df.rows),
                              !.pc = "connect"]]
    /\ UNCHANGED <<tables, files, served, gt, ddl>>

\* Variant for C12: a table that is not there is created, asked for or not.
after_probe_create_unasked(c) ==
    IF ~c.table_exists
    THEN IF c.req.target_create
         THEN IF ~c.req.header
              THEN Raise(c, "provision", "ValueError",
                         Exc("ValueError", "Cannot create table automatically: Source file has no header to infer schema.", <<>>, FALSE))
              ELSE [c EXCEPT !.pc = "create"]
         ELSE [c EXCEPT !.pc = "create"]
    ELSE [c EXCEPT !.pc = "insert"]

\* Variant for C13: the table is created from a file without a header.
after_probe_no_header_check(c) ==
    IF ~c.table_exists
    THEN IF c.req.target_create
         THEN [c EXCEPT !.pc = "create"]
         ELSE Raise(c, "provision", "ValueError",
                    Exc("ValueError", "Target table does not exist and 'Create Table' option was not checked.", <<>>, FALSE))
    ELSE [c EXCEPT !.pc = "insert"]

\* Variant for C14: createIfMissing issues CREATE TABLE for a table that is there.
after_probe_create_asked(c) ==
    IF ~c.table_exists
    THEN IF c.req.target_create
         THEN IF ~c.req.header
              THEN Raise(c, "provision", "ValueError",
                         Exc("ValueError", "Cannot create table automatically: Source file has no header to infer schema.", <<>>, FALSE))
              ELSE [c EXCEPT !.pc = "create"]
         ELSE Raise(c, "provision", "ValueError",
                    Exc("ValueError", "Target table does not exist and 'Create Table' option was not checked.", <<>>, FALSE))
    ELSE IF c.req.target_create
    THEN [c EXCEPT !.pc = "create"]
    ELSE [c EXCEPT !.pc = "insert"]

\* Variant for C24: the insert follows the probe whatever it found.
after_probe_insert_always(c) == [c EXCEPT !.pc = "insert"]

\* The decision that follows the existence probe (470-496).
after_probe(c) ==
    IF ~c.table_exists
    THEN IF c.req.target_create
         THEN IF ~c.req.header
              THEN Raise(c, "provision", "ValueError",
                         Exc("ValueError", "Cannot create table automatically: Source file has no header to infer schema.", <<>>, FALSE))
              ELSE [c EXCEPT !.pc = "create"]
         ELSE Raise(c, "provision", "ValueError",
                    Exc("ValueError", "Target table does not exist and 'Create Table' option was not checked.", <<>>, FALSE))
    ELSE [c EXCEPT !.pc = "insert"]

\* Variant for C15: every error of the probe is read as "no such table".
is_unknown_table_any(err_str) == TRUE

\* 'UNKNOWN_TABLE' in err_str or "Table doesn't exist" in err_str or
\* 'code: 60' in err_str   (line 463)
is_unknown_table(err_str) == err_str = "UNKNOWN_TABLE"

\* client.command('DESCRIBE TABLE ...') and its except clause (454-468).
Probe(r) ==
    /\ ing[r].pc = "probe"
    /\ \E fault \in StoreFaults :
         LET c == ing[r]
             tab == TableAt(tables, c.req.table)
             err_str == IF fault = "driver" THEN DRIVER_ERROR.msg
                        ELSE IF tab.exists THEN "" ELSE "UNKNOWN_TABLE"
             res == IF fault # "ok" THEN "error"
                    ELSE IF tab.exists THEN "ok" ELSE "unknown_table"
             c1 == [c EXCEPT !.ops = @ \o <<Op("describe", res)>>]
         IN ing' = [ing EXCEPT ![r] =
              IF fault = "other"
              THEN Raise(c1, "probe", "Other", OTHER_ERROR)
              ELSE IF fault = "ok" /\ tab.exists
              THEN after_probe([c1 EXCEPT !.table_exists = TRUE])
              ELSE IF is_unknown_table(err_str)
              THEN after_probe([c1 EXCEPT !.table_exists = FALSE])
              ELSE Raise(c1, "probe", "DriverError", DRIVER_ERROR)]
    /\ UNCHANGED <<tables, files, served, gt, ddl>>

\* Variant for C16: the error of the CREATE TABLE is passed on as it is.
create_except_unwrapped(e) == e

\* except Exception as create_err (490-492)
create_except(e) ==
    Exc("RuntimeError", "Failed to auto-create table", <<>>, TRUE)

\* The CREATE TABLE statement and its execution (475-489).
Create(r) ==
    /\ ing[r].pc = "create"
    /\ \E fault \in StoreFaults :
         LET c == ing[r]
             t == c.req.table
             tab == TableAt(tables, t)
         IN IF fault = "ok" /\ create_ok(tab)
            THEN /\ tables' = [tables EXCEPT ![t] = Table(cols_with_types(c.df), 0)]
                 /\ ing' = [ing EXCEPT ![r] =
                      [c EXCEPT !.ops = @ \o <<Op("create", "ok")>>, !.pc = "insert"]]
            ELSE /\ UNCHANGED tables
                 /\ ing' = [ing EXCEPT ![r] =
                      IF fault = "ok"
                      THEN Raise([c EXCEPT !.ops = @ \o <<Op("create", "exists")>>],
                                 "create", "DriverError", create_except(DRIVER_ERROR))
                      ELSE Raise([c EXCEPT !.ops = @ \o <<Op("create", "error")>>],
                                 "create", IF fault = "driver" THEN "DriverError" ELSE "Other",
                                 create_except(OTHER_ERROR))]
    /\ UNCHANGED <<files, served, gt, ddl>>

InsertFaults == {"ok", "mismatch", "unknown", "driver", "other"}

\* The except clauses of the insert (504-517) by the text of the driver's error.
insert_except(fault) ==
    CASE fault = "mismatch" ->
           Exc("RuntimeError", "Data type mismatch error inserting", <<>>, FALSE)
      [] fault = "unknown" ->
           Exc("RuntimeError", "Column mismatch error inserting", <<>>, FALSE)
      [] fault = "driver" ->
           Exc("RuntimeError", "Error inserting data into ClickHouse table", <<>>, TRUE)
      [] OTHER ->
           Exc("RuntimeError", "An unexpected error occurred during data insertion.", <<>>, FALSE)

\* client.insert_df(full_table_name, df) and the return of the flow (498-519).
Insert(r) ==
    /\ ing[r].pc = "insert"
    /\ \E fault \in InsertFaults :
         LET c == ing[r]
             t == c.req.table
             tab == TableAt(tables, t)
         IN IF fault = "ok" /\ insert_ok(tab, c.df)
            THEN /\ tables' = [tables EXCEPT ![t].nrows = @ + Len(c.df.rows)]
                 /\ ing' = [ing EXCEPT ![r] =
                      Return200([c EXCEPT !.ops = @ \o <<Op("insert_df", "ok")>>],
                                c.processed_count)]
            ELSE /\ UNCHANGED tables
                 /\ ing' = [ing EXCEPT ![r] =
                      Raise([c EXCEPT !.ops = @ \o <<Op("insert_df", "error")>>],
                            "insert", IF fault = "other" THEN "Other" ELSE "DriverError",
                            insert_except(IF fault = "ok" THEN "driver" ELSE fault))]
    /\ UNCHANGED <<files, served, gt, ddl>>

\* The response is out; the worker is free for the next request.
Return(r) ==
    /\ ing[r].pc \in {"done", "failed"}
    /\ ing' = [ing EXCEPT ![r] = IdleCall]
    /\ UNCHANGED <<tables, files, served, gt, ddl>>

\* ------------------------------------------------------------- get_tables
NoTablesResponse == [sent |-> FALSE, status |-> 0, error |-> "", leak |-> FALSE,
                     tables |-> {}]
NoConfig == [missing |-> "none", password |-> FALSE, jwt |-> "", port |-> 0]
IdleTables ==
    [pc |-> "idle", config |-> NoConfig, client |-> NoClient, session |-> "none",
     ops |-> <<>>, args |-> NoClient, resp |-> NoTablesResponse]

\* finally: if client: client.close()   (191-193)
get_tables_finally(g) ==
    IF g.client.present
    THEN [g EXCEPT !.pc = "done", !.session = "closed", !.ops = @ \o <<Op("close", "ok")>>]
    ELSE [g EXCEPT !.pc = "done"]

\* The two except clauses of get_tables() (185-190).
get_tables_except(exc) ==
    IF exc.cls \in {"ValueError", "ConnectionError", "DriverError"}
    THEN [sent |-> TRUE, status |-> 400, error |-> exc.msg, leak |-> exc.leak,
          tables |-> {}]
    ELSE [sent |-> TRUE, status |-> 500,
          error |-> "An unexpected server error occurred while fetching tables.",
          leak |-> FALSE, tables |-> {}]

\* client = get_clickhouse_client(config)   (line 178)
GetTablesOpen ==
    /\ gt.pc = "idle"
    /\ \E config \in ConnConfigs, out \in ConnectOutcomes :
         LET res == get_clickhouse_client(config, out)
             g1 == [gt EXCEPT !.config = config,
                              !.ops = @ \o res.ops,
                              !.args = res.args,
                              !.session = IF res.created THEN "open" ELSE @]
         IN gt' = IF res.exc # NoExc
                  THEN get_tables_finally([g1 EXCEPT !.resp = get_tables_except(res.exc)])
                  ELSE [g1 EXCEPT !.client = res.client, !.pc = "query"]
    /\ UNCHANGED <<tables, files, served, ing, ddl>>

\* The query of system.tables and the response (179-184).
GetTablesQuery ==
    /\ gt.pc = "query"
    /\ \E fault \in StoreFaults :
         LET g1 == [gt EXCEPT !.ops = @ \o <<Op("query", IF fault = "ok" THEN "ok" ELSE "error")>>]
         IN gt' = get_tables_finally(
                    [g1 EXCEPT !.resp =
                       CASE fault = "ok" ->
                              [sent |-> TRUE, status |-> 200, error |-> "", leak |-> FALSE,
                               tables |-> {t \in TableNames : tables[t].exists}]
                         [] fault = "driver" -> get_tables_except(DRIVER_ERROR)
                         [] OTHER -> get_tables_except(OTHER_ERROR)])
    /\ UNCHANGED <<tables, files, served, ing, ddl>>

GetTablesReturn ==
    /\ gt.pc = "done"
    /\ gt' = IdleTables
    /\ UNCHANGED <<tables, files, served, ing, ddl>>

\* ------------------------------------------- the column list of the DDL
\* for col_name, dtype in df.dtypes.items():
\*     cols_with_types.append(... pandas_to_clickhouse_type(dtype) ...)
\* taken on its own, over the dtypes of any frame (476-481).
NoDdl == [dtypes |-> <<>>, cols_with_types |-> <<>>]

MapColumn ==
    /\ Len(ddl.cols_with_types) < Len(ddl.dtypes)
    /\ ddl' = [ddl EXCEPT !.cols_with_types =
                  @ \o <<pandas_to_clickhouse_type(ddl.dtypes[Len(@) + 1])>>]
    /\ UNCHANGED <<tables, files, served, ing, gt>>

\* ------------------------------------------------------------ specifications
HeaderAB == <<"a", "b">>
RowAB == <<"1", "x">>
SampleFile(n) == File(",", <<HeaderAB>> \o [i \in 1..n |-> RowAB])

\* The source table holds up to MaxRows rows, the target table is not there,
\* and data.csv is missing or holds a header and up to MaxRows rows.
Init ==
    /\ tables \in {[t \in TableNames |-> IF t = "src" THEN Table(SrcCols, n) ELSE NoTable] :
                     n \in 0..MaxRows}
    /\ files \in {[f \in FileNames |-> x] : x \in {NoFile} \cup {SampleFile(n) : n \in 0..MaxRows}}
    /\ served = 0
    /\ ing = [r \in Req |-> IdleCall]
    /\ gt = IdleTables
    /\ ddl = NoDdl

\* One worker serves transfers one after the other.
Next ==
    \/ Validate(1)
    \/ Connect(1)
    \/ Query(1)
    \/ Write(1)
    \/ Read(1)
    \/ Probe(1)
    \/ Create(1)
    \/ Insert(1)
    \/ Return(1)

Spec == Init /\ [][Next]_vars

\* The steps of ingest() after it took its request: each is one blocking
\* call of a single thread of control, so when the call returns the next
\* step is taken.
Step(r) ==
    \/ Connect(r)
    \/ Query(r)
    \/ Write(r)
    \/ Read(r)
    \/ Probe(r)
    \/ Create(r)
    \/ Insert(r)

SpecFair == Init /\ [][Next]_vars /\ WF_vars(Step(1))

\* The creation race: every worker serves FileToStore requests of data.csv
\* into the table tgt, which is not there at first.
InitRace ==
    /\ tables = [t \in TableNames |-> IF t = "src" THEN Table(SrcCols, 0) ELSE NoTable]
    /\ files \in {[f \in FileNames |-> SampleFile(n)] : n \in 1..MaxRows}
    /\ served = 0
    /\ ing = [r \in Req |-> IdleCall]
    /\ gt = IdleTables
    /\ ddl = NoDdl

NextRace ==
    \E r \in Req :
        \/ ValidateRace(r)
        \/ Read(r)
        \/ Connect(r)
        \/ Probe(r)
        \/ Create(r)
        \/ Insert(r)
        \/ Return(r)

SpecRace == InitRace /\ [][NextRace]_vars

\* Connections opened on their own: the get_tables() endpoint over every
\* connection config.
NextConn == GetTablesOpen \/ GetTablesQuery \/ GetTablesReturn

SpecConn == Init /\ [][NextConn]_vars

\* The type mapper applied, column by column, to the dtypes of every frame
\* of up to MaxCols columns.
InitMapper ==
    /\ tables = [t \in TableNames |-> NoTable]
    /\ files = [f \in FileNames |-> NoFile]
    /\ served = 0
    /\ ing = [r \in Req |-> IdleCall]
    /\ gt = IdleTables
    /\ ddl \in {[dtypes |-> d, cols_with_types |-> <<>>] :
                  d \in UNION {[1..n -> Dtypes] : n \in 0..MaxCols}}

NextMapper == MapColumn

SpecMapper == InitMapper /\ [][NextMapper]_vars

\* ------------------------------------------------------------------ claims
Terminal(c) == c.pc \in {"done", "failed"}
OpNames(c) == {c.ops[i].op : i \in 1..Len(c.ops)}
StoreOpNames == {"get_client", "ping", "query_df", "describe", "create", "insert_df"}
Issued(c, op, res) == \E i \in 1..Len(c.ops) : c.ops[i] = Op(op, res)

\* The error kinds of the taxonomy, by the message the caller gets.
ConfigErrors ==
    {"Missing required ClickHouse connection parameters",
     "Either password or JWT token must be provided",
     "JWT token validation failed.",
     "JWT authentication via native protocol likely requires password",
     "No columns selected for ingestion.",
     "Source ClickHouse table not specified.",
     "Target file delimiter not specified.",
     "Source file delimiter not specified.",
     "Target ClickHouse table not specified.",
     "File path cannot be empty.", "Invalid file path format",
     "Source path is not a file", "Invalid flow_type specified",
     "Invalid target table name"}
SchemaErrors ==
    {"Selected columns not found in file header",
     "Cannot create table automatically: Source file has no header to infer schema.",
     "Target table does not exist and 'Create Table' option was not checked."}
DDLErrors == {"Failed to auto-create table"}

\* The frame pd.read_csv gives for the source file of a FileToStore call.
ParsedSource(c) == read_csv(FileAt(c.req.file), c.req.delimiter, c.req.header)
ZeroDataRows(c) ==
    ParsedSource(c).exc = "EmptyDataError" \/ Len(ParsedSource(c).df.rows) = 0
SelectionMissing(c) ==
    /\ c.req.header /\ c.req.columns # <<>>
    /\ ParsedSource(c).exc = "none"
    /\ missing_cols(c.req.columns, ParsedSource(c).df) # <<>>

\* A FileToStore call that passed validation and whose file was parsed.
FileParsed(c) ==
    /\ Terminal(c) /\ c.req.flow_type = "ff_to_ch"
    /\ Issued(c, "read_csv", "ok")

ShortCircuit(c) ==
    /\ c.pc = "done" /\ c.resp.success /\ c.resp.status = 200
    /\ c.resp.records_processed = 0
    /\ OpNames(c) \cap StoreOpNames = {}
    /\ c.session = "none"

\* C1 as stated: every valid FileToStore request whose parsed frame has zero
\* data rows, with or without a header, ends success=true with
\* recordsProcessed=0 and issues no store operation.
C1_ZeroRowsAlwaysSucceed ==
    \A r \in Req : FileParsed(ing[r]) /\ ZeroDataRows(ing[r]) => ShortCircuit(ing[r])

\* C1 amended: a valid FileToStore request whose parsed frame has zero data
\* rows and whose selected columns (header present, selection non-empty) are
\* all in the header ends success=true with recordsProcessed=0, and no
\* connection, CREATE TABLE or bulk insert is issued for it.
C1_ZeroRowsShortCircuit ==
    \A r \in Req :
        FileParsed(ing[r]) /\ ZeroDataRows(ing[r]) /\ ~SelectionMissing(ing[r])
            => ShortCircuit(ing[r])

\* C1 case: a header-only file read with a matching selection, and done.
C1_Witness ==
    \E r \in Req :
        /\ FileParsed(ing[r]) /\ ZeroDataRows(ing[r])
        /\ ing[r].req.header /\ ing[r].req.columns = <<"b", "a">>
        /\ ParsedSource(ing[r]).df.cols = <<"a", "b">>
        /\ ShortCircuit(ing[r])

\* C2 as stated: a FileToStore request on a file with a header, with a selected
\* column that is not in the header, fails with the SchemaError that names
\* exactly the missing columns, and issues no store operation.
C2_MissingColumnsNamed ==
    \A r \in Req :
        FileParsed(ing[r]) /\ SelectionMissing(ing[r])
            => /\ ing[r].pc = "failed" /\ ~ing[r].resp.success
               /\ ing[r].resp.error = "Selected columns not found in file header"
               /\ ing[r].resp.cols = missing_cols(ing[r].req.columns, ParsedSource(ing[r]).df)
               /\ OpNames(ing[r]) \cap StoreOpNames = {}

\* C3 as stated: in no terminal state of a transfer does a session that was
\* opened remain unclosed.
C3_SessionClosedAtExit ==
    \A r \in Req : Terminal(ing[r]) => ing[r].session # "open"

\* C4: two concurrent FileToStore requests into the same absent table can both
\* issue CREATE TABLE; then exactly one CREATE succeeds, and a request whose
\* CREATE did not succeed ends Failed, success=false, with the DDLError
\* reported to its caller.
C4_CreateRace ==
    /\ \A r \in Req :
           (\E i \in 1..Len(ing[r].ops) :
                ing[r].ops[i].op = "create" /\ ing[r].ops[i].res # "ok")
               => /\ ing[r].pc = "failed" /\ ing[r].resp.sent
                  /\ ~ing[r].resp.success /\ ing[r].resp.status = 400
                  /\ ing[r].resp.error \in DDLErrors
    /\ \A r1, r2 \in Req :
           /\ r1 # r2 /\ served = 2
           /\ \E res \in {"ok", "exists"} : Issued(ing[r1], "create", res)
           /\ \E res \in {"ok", "exists"} : Issued(ing[r2], "create", res)
           => \/ Issued(ing[r1], "create", "ok") /\ Issued(ing[r2], "create", "exists")
              \/ Issued(ing[r1], "create", "exists") /\ Issued(ing[r2], "create", "ok")

\* C4 case: both requests found the table absent and issued CREATE; the
\* winner is done with its rows inserted and the loser has failed.
C4_Witness ==
    \E r1, r2 \in Req :
        /\ r1 # r2
        /\ Issued(ing[r1], "describe", "unknown_table")
        /\ Issued(ing[r2], "describe", "unknown_table")
        /\ Issued(ing[r1], "create", "ok") /\ ing[r1].pc = "done"
        /\ ing[r1].resp.success /\ ing[r1].resp.records_processed > 0
        /\ Issued(ing[r2], "create", "exists") /\ ing[r2].pc = "failed"
        /\ ing[r2].resp.error \in DDLErrors

\* C5: opening a connection with a valid bearer token, a port that is neither
\* 8123 nor 8443, and no password fails with a ConfigError (status 400), and
\* no connection is attempted: no session is created, no probe is sent.
C5_TokenOnNativePort ==
    (/\ gt.pc # "idle"
     /\ gt.config.jwt = "valid" /\ gt.config.port \notin {8123, 8443}
     /\ ~gt.config.password)
        => /\ gt.pc = "done" /\ gt.resp.sent /\ gt.resp.status = 400
           /\ gt.resp.error \in ConfigErrors
           /\ gt.ops = <<>> /\ gt.session = "none" /\ ~gt.client.present

\* C5 case: the config is complete, so the port check is what rejects it.
C5_Witness ==
    /\ gt.pc = "done" /\ gt.config.missing = "none"
    /\ gt.config.jwt = "valid" /\ gt.config.port = 9000 /\ ~gt.config.password
    /\ gt.resp.error = "JWT authentication via native protocol likely requires password"
    /\ gt.ops = <<>>

\* The data rows of the file a StoreToFile call wrote, read back as written.
WrittenRows(c) ==
    LET back == read_csv(FileAt(c.req.file), c.req.delimiter, c.req.header)
    IN IF back.exc = "EmptyDataError" THEN 0 ELSE Len(back.df.rows)

\* C6: a StoreToFile request that succeeds reports as recordsProcessed the
\* number of data rows of the file it wrote (the header row not counted),
\* for each delimiter and each includeHeader setting.
C6_RecordsAreFileRows ==
    \A r \in Req :
        (ing[r].pc = "done" /\ ing[r].req.flow_type = "ch_to_ff")
            => /\ ing[r].resp.success
               /\ FileAt(ing[r].req.file).sep = ing[r].req.delimiter
               /\ ing[r].resp.records_processed = WrittenRows(ing[r])
               /\ ing[r].resp.records_processed = Len(ing[r].df.rows)

\* C6 case: a file with a header and at least one row was written.
C6_Witness ==
    \E r \in Req :
        /\ ing[r].pc = "done" /\ ing[r].req.flow_type = "ch_to_ff"
        /\ Issued(ing[r], "to_csv", "ok")
        /\ ing[r].req.header /\ ing[r].req.delimiter = ";"
        /\ ing[r].resp.records_processed = 1
        /\ Len(FileAt(ing[r].req.file).lines) = 2

\* The place of an external call in the order of its flow.
Rank(flow, op) ==
    IF flow = "ch_to_ff"
    THEN CASE op \in {"get_client", "ping"} -> 1
           [] op = "query_df" -> 2
           [] op = "to_csv" -> 3
           [] op = "close" -> 4
           [] OTHER -> 0
    ELSE CASE op = "read_csv" -> 1
           [] op \in {"get_client", "ping"} -> 2
           [] op \in {"describe", "create"} -> 3
           [] op = "insert_df" -> 4
           [] op = "close" -> 5
           [] OTHER -> 0

SessionOpenBefore(c, i) ==
    /\ \E j \in 1..(i - 1) : c.ops[j] = Op("get_client", "ok")
    /\ \E j \in 1..(i - 1) : c.ops[j] = Op("ping", "ok")

\* C7 as stated (its last part): no source data, store table or flat file,
\* is read before a session to the store has been opened.
C7_SessionBeforeAnyRead ==
    \A r \in Req : \A i \in 1..Len(ing[r].ops) :
        ing[r].ops[i].op \in {"query_df", "read_csv"}
            => \E j \in 1..(i - 1) : ing[r].ops[j] = Op("get_client", "ok")

\* C7 amended: a request rejected by Validating has issued nothing; StoreToFile
\* goes Connecting, Reading, Writing and FileToStore goes Reading (of the flat
\* file), Connecting, ProvisioningTarget, Writing, in that order, the session
\* being closed last; no store operation (query, probe of the table, CREATE,
\* insert) is issued before a session is open and probed; Done is reached
\* only through all of these, or through the empty-frame short-circuit.
C7_PhaseOrder ==
    \A r \in Req :
        LET c == ing[r]
            flow == c.req.flow_type
        IN /\ c.raised.site = "validate" => c.ops = <<>>
           /\ \A i \in 1..Len(c.ops) : Rank(flow, c.ops[i].op) > 0
           /\ \A i, j \in 1..Len(c.ops) :
                  i < j => Rank(flow, c.ops[i].op) <= Rank(flow, c.ops[j].op)
           /\ \A i \in 1..Len(c.ops) :
                  c.ops[i].op \in {"query_df", "describe", "create", "insert_df"}
                      => SessionOpenBefore(c, i)
           /\ (c.pc = "done" /\ flow = "ch_to_ff")
                  => OpNames(c) = {"get_client", "ping", "query_df", "to_csv", "close"}
           /\ (c.pc = "done" /\ flow = "ff_to_ch")
                  => \/ ShortCircuit(c)
                     \/ {"read_csv", "get_client", "ping", "describe", "insert_df", "close"}
                            \subseteq OpNames(c)

\* C7 case: a FileToStore transfer through every state, the file read first.
C7_Witness ==
    \E r \in Req :
        /\ ing[r].pc = "done" /\ ing[r].req.flow_type = "ff_to_ch"
        /\ ing[r].ops = <<Op("read_csv", "ok"), Op("get_client", "ok"), Op("ping", "ok"),
                          Op("describe", "unknown_table"), Op("create", "ok"),
                          Op("insert_df", "ok"), Op("close", "ok")>>

\* C8: a transfer that fails in Writing (file write or bulk insert) or in
\* ProvisioningTarget, after it read N rows, reports success=false with
\* recordsProcessed = N.
C8_FailureReportsRowsRead ==
    \A r \in Req :
        (/\ ing[r].pc = "failed"
         /\ ing[r].raised.site \in {"write", "insert", "probe", "provision", "create"})
            => /\ \/ Issued(ing[r], "query_df", "ok")
                  \/ Issued(ing[r], "read_csv", "ok")
               /\ ing[r].resp.sent /\ ~ing[r].resp.success
               /\ ing[r].resp.records_processed = Len(ing[r].df.rows)

\* C8 case: the file write fails after a row was read from the store.
C8_Witness ==
    \E r \in Req :
        /\ ing[r].pc = "failed" /\ ing[r].raised.site = "write"
        /\ Issued(ing[r], "query_df", "ok") /\ Len(ing[r].df.rows) = 1
        /\ ing[r].resp.records_processed = 1

\* C9 as stated: an exception raised during a transfer that is of none of the
\* recognized kinds reaches the caller as status 500 with the generic message
\* and no internal detail; status 400 is for recognized kinds only.
C9_UnrecognizedIsGeneric ==
    \A r \in Req :
        (ing[r].pc = "failed" /\ ing[r].raised.cls = "Other")
            => /\ ing[r].resp.status = 500
               /\ ing[r].resp.error = GENERIC_ERROR
               /\ ~ing[r].resp.leak

\* The frame whose to_csv image, header included, the source file is.
FrameOf(file) == Frame(Head(file.lines), Tail(file.lines))

\* A FileToStore call that reads back, whole, a file StoreToFile writes with
\* a header, into a table that was not there, and succeeds.
ReadBack(c) ==
    /\ c.pc = "done" /\ c.req.flow_type = "ff_to_ch" /\ c.resp.success
    /\ c.req.header /\ c.req.target_create
    /\ FileAt(c.req.file).lines # <<>>
    /\ FileAt(c.req.file) = to_csv(FrameOf(FileAt(c.req.file)), c.req.delimiter, TRUE)
    /\ c.req.columns \in {<<>>, FrameOf(FileAt(c.req.file)).cols}
    /\ ~Issued(c, "describe", "ok")

DiscoveredNames(t) ==
    [j \in 1..Len(get_columns(TableAt(tables, t)).columns) |->
        get_columns(TableAt(tables, t)).columns[j].name]

SameColumns(c) ==
    /\ get_columns(TableAt(tables, c.req.table)).exc = NoExc
    /\ DiscoveredNames(c.req.table) = FrameOf(FileAt(c.req.file)).cols

\* C10 as stated: for any frame, written with its header and read back with
\* the same delimiter into a table that was not there, column discovery on
\* that table gives the frame's column names in the frame's order.
C10_RoundTripAnyFrame ==
    \A r \in Req : ReadBack(ing[r]) => SameColumns(ing[r])

\* C10 amended: the same for any frame with at least one data row.
C10_RoundTripNonEmpty ==
    \A r \in Req :
        (ReadBack(ing[r]) /\ Len(FrameOf(FileAt(ing[r].req.file)).rows) >= 1)
            => SameColumns(ing[r])

\* C10 case: the file holds the columns b, a as a StoreToFile transfer of
\* this behaviour wrote them, and the new table has them in that order.
C10_Witness ==
    \E r \in Req :
        /\ ReadBack(ing[r]) /\ served = 2
        /\ FrameOf(FileAt(ing[r].req.file)).cols = <<"b", "a">>
        /\ Len(FrameOf(FileAt(ing[r].req.file)).rows) = 1
        /\ Issued(ing[r], "create", "ok")
        /\ DiscoveredNames(ing[r].req.table) = <<"b", "a">>

\* The native type the type mapper is to give each domain.
NativeTypes == {"Int64", "Float64", "UInt8", "DateTime", "String"}
NativeTypeOf(dtype) ==
    IF dtype = "int64" THEN "Int64"
    ELSE IF dtype = "float64" THEN "Float64"
    ELSE IF dtype = "bool" THEN "UInt8"
    ELSE IF dtype = "datetime64" THEN "DateTime"
    ELSE "String"

\* C11: the type mapper is total and deterministic: integer gives Int64,
\* float Float64, boolean UInt8, timestamp DateTime, text String and every
\* other domain String; it gives a result for every column, and the same
\* result for the same domain.
C11_TypeMapperTotal ==
    /\ Len(ddl.cols_with_types) <= Len(ddl.dtypes)
    /\ \A i \in 1..Len(ddl.cols_with_types) :
           /\ ddl.cols_with_types[i] \in NativeTypes
           /\ ddl.cols_with_types[i] = NativeTypeOf(ddl.dtypes[i])
    /\ \A i, j \in 1..Len(ddl.cols_with_types) :
           ddl.dtypes[i] = ddl.dtypes[j]
               => ddl.cols_with_types[i] = ddl.cols_with_types[j]
    /\ Len(ddl.cols_with_types) < Len(ddl.dtypes) => ENABLED MapColumn

\* C11 case: a boolean column and a column of an unrecognized domain mapped.
C11_Witness ==
    /\ ddl.dtypes = <<"bool", "category">>
    /\ ddl.cols_with_types = <<"UInt8", "String">>

\* A FileToStore call whose probe found the target table absent.
ProbedAbsent(c) ==
    /\ c.req.flow_type = "ff_to_ch" /\ Len(c.df.rows) >= 1
    /\ Issued(c, "describe", "unknown_table")

NoCreateNoInsert(c) == OpNames(c) \cap {"create", "insert_df"} = {}

FailedWith(c, msgs) ==
    /\ c.pc = "failed" /\ c.resp.sent /\ ~c.resp.success
    /\ c.resp.status = 400 /\ c.resp.error \in msgs

\* C12: a FileToStore transfer of a non-empty frame whose target table is
\* absent, with createIfMissing false, ends Failed with a SchemaError, and
\* neither CREATE TABLE nor a bulk insert is issued.
C12_AbsentNoCreate ==
    \A r \in Req :
        (ProbedAbsent(ing[r]) /\ ~ing[r].req.target_create)
            => /\ FailedWith(ing[r], SchemaErrors)
               /\ ing[r].raised.site = "provision"
               /\ NoCreateNoInsert(ing[r])

\* C12 case: the file has a header and a row, the table is not there.
C12_Witness ==
    \E r \in Req :
        /\ ProbedAbsent(ing[r]) /\ ~ing[r].req.target_create /\ ing[r].req.header
        /\ ing[r].resp.error =
             "Target table does not exist and 'Create Table' option was not checked."
        /\ ~TableAt(tables, ing[r].req.table).exists

\* C13: a FileToStore transfer of a non-empty frame whose target table is
\* absent, with createIfMissing true and a source file without a header,
\* ends Failed with a SchemaError, and no CREATE TABLE and no bulk insert is
\* issued.
C13_AbsentNoHeader ==
    \A r \in Req :
        (ProbedAbsent(ing[r]) /\ ing[r].req.target_create /\ ~ing[r].req.header)
            => /\ FailedWith(ing[r], SchemaErrors)
               /\ ing[r].raised.site = "provision"
               /\ NoCreateNoInsert(ing[r])

\* C13 case: the frame has the positional column names of a headerless file.
C13_Witness ==
    \E r \in Req :
        /\ ProbedAbsent(ing[r]) /\ ing[r].req.target_create /\ ~ing[r].req.header
        /\ ing[r].df.cols = <<"0", "1">>
        /\ ing[r].resp.error =
             "Cannot create table automatically: Source file has no header to infer schema."
        /\ ~TableAt(tables, ing[r].req.table).exists

\* C14: when the probe finds the target table present, no CREATE TABLE is
\* issued, whatever createIfMissing and whatever the table's columns, and
\* the next store operation is the bulk insert of the whole frame.
C14_PresentNoCreate ==
    \A r \in Req :
        LET c == ing[r] IN
        Issued(c, "describe", "ok")
            => /\ "create" \notin OpNames(c)
               /\ c.table_exists
               /\ c.pc \in {"insert", "done", "failed"}
               /\ \A i \in 1..Len(c.ops) :
                      (c.ops[i].op = "describe" /\ i < Len(c.ops))
                          => c.ops[i + 1].op = "insert_df"
               /\ Terminal(c) => "insert_df" \in OpNames(c)
               /\ c.pc = "done" => c.resp.records_processed = Len(c.df.rows)

\* C14 case: createIfMissing is set, the table is there with columns other
\* than the frame's, and the insert has been issued.
C14_Witness ==
    \E r \in Req :
        /\ Issued(ing[r], "describe", "ok") /\ ing[r].req.target_create
        /\ ColNames(TableAt(tables, ing[r].req.table)) # ing[r].df.cols
        /\ "insert_df" \in OpNames(ing[r]) /\ "create" \notin OpNames(ing[r])

\* C15: a probe that fails with a store error other than "unknown table"
\* does not make the table absent: the transfer fails with that error as it
\* is, and neither CREATE TABLE nor a bulk insert is issued, createIfMissing
\* or not.
C15_ProbeErrorPropagates ==
    \A r \in Req :
        Issued(ing[r], "describe", "error")
            => /\ ing[r].pc = "failed" /\ ~ing[r].resp.success
               /\ ing[r].raised.site = "probe"
               /\ ~ing[r].table_exists
               /\ NoCreateNoInsert(ing[r])
               /\ ing[r].raised.cls = "DriverError"
                      => /\ ing[r].resp.status = 400
                         /\ ing[r].resp.error = DRIVER_ERROR.msg

\* C15 case: the store's error on a probe of a request with createIfMissing.
C15_Witness ==
    \E r \in Req :
        /\ Issued(ing[r], "describe", "error") /\ ing[r].raised.cls = "DriverError"
        /\ ing[r].req.target_create /\ ing[r].req.header
        /\ ing[r].resp.error = DRIVER_ERROR.msg
        /\ ing[r].ops[Len(ing[r].ops)] = Op("close", "ok")

\* C16: when the CREATE TABLE statement fails to execute, for any reason, the
\* transfer ends Failed with a DDLError and no bulk insert is attempted.
C16_CreateFailureIsDDLError ==
    \A r \in Req :
        (\E res \in {"exists", "error"} : Issued(ing[r], "create", res))
            => /\ FailedWith(ing[r], DDLErrors)
               /\ ing[r].raised.site = "create"
               /\ "insert_df" \notin OpNames(ing[r])
               /\ ing[r].resp.records_processed = Len(ing[r].df.rows)

\* C16 case: the store rejects the statement; the table is still not there.
C16_Witness ==
    \E r \in Req :
        /\ Issued(ing[r], "create", "error") /\ ing[r].pc = "failed"
        /\ ing[r].resp.error = "Failed to auto-create table"
        /\ ~TableAt(tables, ing[r].req.table).exists

TokenErrors ==
    {"Authentication token has expired.", "Authentication token is invalid"}

\* A call of get_clickhouse_client that ended without touching the driver.
NoConnectionAttempt(g) ==
    /\ g.pc = "done" /\ g.resp.sent /\ g.resp.status = 400
    /\ g.ops = <<>> /\ g.args = NoClient
    /\ g.session = "none" /\ ~g.client.present

\* The connection arguments went to get_client.
Attempted(g) == g.ops # <<>> /\ g.ops[1].op = "get_client"

\* C17: a bearer token in a complete config is validated before the port and
\* credential branch and before any connection attempt: an expired or
\* malformed token fails with the token's AuthError and no session, whatever
\* the port and whether a password is given or not.
C17_TokenValidatedFirst ==
    (/\ gt.pc # "idle" /\ gt.config.missing = "none"
     /\ gt.config.jwt \in {"expired", "malformed"})
        => /\ NoConnectionAttempt(gt)
           /\ gt.resp.error \in TokenErrors
           /\ gt.resp.error = validate_jwt_exc(gt.config.jwt).msg

\* C17 case: an expired token next to a password, on the native port.
C17_Witness ==
    /\ gt.pc = "done" /\ gt.config.missing = "none"
    /\ gt.config.jwt = "expired" /\ gt.config.password /\ gt.config.port = 9000
    /\ gt.resp.error = "Authentication token has expired."
    /\ gt.ops = <<>>

\* C18: with a valid bearer token and port 8123 or 8443 the connection is
\* opened with the token as its Authorization header and no password is
\* sent, even if the config has a password.
C18_BearerHeaderNoPassword ==
    (/\ gt.pc # "idle" /\ gt.config.missing = "none"
     /\ gt.config.jwt = "valid" /\ gt.config.port \in {8123, 8443})
        => /\ Attempted(gt)
           /\ gt.args.present /\ gt.args.auth_header /\ ~gt.args.password
           /\ gt.client.present => gt.client = gt.args

\* C18 case: the config has a password too, and the connection is open.
C18_Witness ==
    /\ gt.pc = "query" /\ gt.config.missing = "none"
    /\ gt.config.jwt = "valid" /\ gt.config.port = 8443 /\ gt.config.password
    /\ gt.ops = <<Op("get_client", "ok"), Op("ping", "ok")>>
    /\ gt.client.auth_header /\ ~gt.client.password

\* C19: with a valid bearer token, a password and a port other than 8123 and
\* 8443 the connection is opened with the password, and without the token:
\* no Authorization header is sent.
C19_NativePortUsesPassword ==
    (/\ gt.pc # "idle" /\ gt.config.missing = "none"
     /\ gt.config.jwt = "valid" /\ gt.config.password
     /\ gt.config.port \notin {8123, 8443})
        => /\ Attempted(gt)
           /\ gt.args.present /\ gt.args.password /\ ~gt.args.auth_header
           /\ gt.client.present => gt.client = gt.args

\* C19 case: the connection is open on port 9000.
C19_Witness ==
    /\ gt.pc = "query" /\ gt.config.missing = "none"
    /\ gt.config.jwt = "valid" /\ gt.config.password /\ gt.config.port = 9000
    /\ gt.ops = <<Op("get_client", "ok"), Op("ping", "ok")>>
    /\ gt.client.password /\ ~gt.client.auth_header

\* C20: a config that lacks host, port, database or user (or has it empty),
\* or that has neither a password nor a token, fails with a ConfigError
\* before the token is validated and without a connection attempt.
C20_IncompleteConfigRejected ==
    /\ (gt.pc # "idle" /\ gt.config.missing # "none")
           => /\ NoConnectionAttempt(gt)
              /\ gt.resp.error = "Missing required ClickHouse connection parameters"
    /\ (/\ gt.pc # "idle" /\ gt.config.missing = "none"
        /\ ~gt.config.password /\ gt.config.jwt = "")
           => /\ NoConnectionAttempt(gt)
              /\ gt.resp.error = "Either password or JWT token must be provided"

\* C20 case: the user is missing and the token has expired; the config error
\* is the one reported.
C20_Witness ==
    /\ gt.pc = "done" /\ gt.config.missing = "user" /\ gt.config.jwt = "expired"
    /\ gt.resp.error = "Missing required ClickHouse connection parameters"
    /\ gt.resp.error \in ConfigErrors /\ gt.ops = <<>>

\* A FileToStore call whose frame went on to provisioning and insert.
FrameHandedOn(c) == c.req.flow_type = "ff_to_ch" /\ c.processed_count > 0

\* C21: on a file with a header, a non-empty selection whose names are all in
\* the header gives provisioning and insert a frame of exactly the selected
\* columns in the caller's order, and an empty selection gives them every
\* parsed column in file order.
C21_SelectionOrder ==
    \A r \in Req :
        LET c == ing[r]
            parsed == ParsedSource(c).df
        IN (FrameHandedOn(c) /\ c.req.header)
            => /\ c.req.columns # <<>>
                   => /\ Range(c.req.columns) \subseteq Range(parsed.cols)
                      /\ c.df.cols = c.req.columns
                      /\ Len(c.df.rows) = Len(parsed.rows)
                      /\ \A i \in 1..Len(c.df.rows) : \A j \in 1..Len(c.req.columns) :
                             c.df.rows[i][j] =
                                 parsed.rows[i][IndexOf(parsed.cols, c.req.columns[j])]
               /\ c.req.columns = <<>> => c.df = parsed
               /\ Issued(c, "create", "ok")
                   => ColNames(TableAt(tables, c.req.table)) = c.df.cols

\* C21 case: b, a selected from a file of a, b; the table is created as b, a.
C21_Witness ==
    \E r \in Req :
        /\ FrameHandedOn(ing[r]) /\ ing[r].req.header
        /\ ing[r].req.columns = <<"b", "a">>
        /\ ParsedSource(ing[r]).df.cols = <<"a", "b">>
        /\ ing[r].df = Frame(<<"b", "a">>, <<<<"x", "1">>>>)
        /\ Issued(ing[r], "create", "ok") /\ ing[r].pc = "done"
        /\ ColNames(TableAt(tables, ing[r].req.table)) = <<"b", "a">>

\* The call as it would be had the request come with no selected columns.
Unselected(c) == [c EXCEPT !.req.columns = <<>>]

\* C22: on a file declared to have no header the selected columns are
\* ignored: they never make the transfer fail, the frame keeps every
\* positionally named column, and validation and column selection end as
\* they do for the same request with no selected columns.
C22_HeaderlessSelectionIgnored ==
    \A r \in Req :
        LET c == ing[r]
            parsed == ParsedSource(c) IN
        (c.req.flow_type = "ff_to_ch" /\ ~c.req.header)
            => /\ c.raised.site # "select"
               /\ c.raised.site = "read" => Issued(c, "read_csv", "error")
               /\ (c.pc = "read" \/ c.raised.site = "validate")
                      => Unselected(c) = ingest_validate(Unselected(c).req)
               /\ Issued(c, "read_csv", "ok")
                      => /\ select_columns(parsed.df, FALSE, c.req.columns)
                              = select_columns(parsed.df, FALSE, <<>>)
                         /\ ZeroDataRows(c) => ShortCircuit(c)
               /\ FrameHandedOn(c)
                      => /\ c.df = parsed.df
                         /\ c.df.cols = [j \in 1..Len(c.df.cols) |-> ToString(j - 1)]

\* C22 case: b, a selected on a headerless file; the frame has columns 0, 1
\* and is inserted into a table that was there.
C22_Witness ==
    \E r \in Req :
        /\ FrameHandedOn(ing[r]) /\ ~ing[r].req.header
        /\ ing[r].req.columns = <<"b", "a">>
        /\ ing[r].df.cols = <<"0", "1">>
        /\ Issued(ing[r], "describe", "ok") /\ "insert_df" \in OpNames(ing[r])

\* The one result of a call: Done with no error, or Failed with one error.
OneResult(c) ==
    /\ c.resp.sent
    /\ c.pc = "done"
           => /\ c.resp.success /\ c.resp.status = 200
              /\ c.resp.error = "" /\ c.raised = NoRaise
    /\ c.pc = "failed"
           => /\ ~c.resp.success /\ c.resp.status \in {400, 500}
              /\ c.resp.error # "" /\ c.raised # NoRaise

\* C23: every external call returning, every transfer request reaches a
\* terminal state; there it has exactly one result, Done with success and
\* no error or Failed with one error; no result exists before; and once the
\* terminal state is decided the call issues nothing more (closing the
\* session is the last thing it did).
C23_OneTerminalState ==
    /\ \A r \in Req : (ing[r].pc # "idle") ~> Terminal(ing[r])
    /\ [](\A r \in Req :
            /\ Terminal(ing[r]) => OneResult(ing[r])
            /\ ~Terminal(ing[r]) => ~ing[r].resp.sent
            /\ \A i \in 1..(Len(ing[r].ops) - 1) : ing[r].ops[i].op # "close")
    /\ [][\A r \in Req :
            Terminal(ing[r])
                => /\ ing'[r] \in {ing[r], IdleCall}
                   /\ tables' = tables /\ files' = files]_vars

\* C23 case: a transfer that failed in its last step, the insert, has its
\* one error and closed its session last.
C23_Witness ==
    \E r \in Req :
        /\ ing[r].pc = "failed" /\ ing[r].raised.site = "insert"
        /\ OneResult(ing[r])
        /\ ing[r].ops[Len(ing[r].ops)] = Op("close", "ok")
        /\ ing[r].session = "closed"

\* The places of the calls of `op` in the log of a call.
Places(c, op) == {i \in 1..Len(c.ops) : c.ops[i].op = op}

\* C24: in every interleaving of concurrent FileToStore requests a request
\* issues its bulk insert only after its own probe found the table or its
\* own CREATE TABLE succeeded, so the table exists when the insert is issued;
\* a request issues at most one CREATE TABLE and at most one bulk insert, the
\* CREATE before the insert.
C24_InsertAfterOwnProbeOrCreate ==
    \A r \in Req :
        LET c == ing[r] IN
        /\ Cardinality(Places(c, "create")) <= 1
        /\ Cardinality(Places(c, "insert_df")) <= 1
        /\ \A i \in Places(c, "insert_df") :
               /\ \E j \in 1..(i - 1) :
                      c.ops[j] \in {Op("describe", "ok"), Op("create", "ok")}
               /\ \A j \in Places(c, "create") : j < i
               /\ TableAt(tables, c.req.table).exists
        /\ c.pc = "insert"
               => /\ TableAt(tables, c.req.table).exists
                  /\ \/ Issued(c, "describe", "ok")
                     \/ Issued(c, "create", "ok")

\* C24 case: one request created the table and inserted, the other probed
\* after that, found the table and inserted; both rows are in.
C24_Witness ==
    \E r1, r2 \in Req :
        /\ r1 # r2
        /\ Issued(ing[r1], "create", "ok") /\ Issued(ing[r1], "insert_df", "ok")
        /\ Issued(ing[r2], "describe", "ok") /\ Issued(ing[r2], "insert_df", "ok")
        /\ "create" \notin OpNames(ing[r2])
        /\ tables["tgt"].nrows = 2 * Len(ing[r1].df.rows)

\* A name made only of alphanumeric characters and underscores.
WellFormedName(name) ==
    /\ Len(Chars(name)) > 0
    /\ \A i \in 1..Len(Chars(name)) : Chars(name)[i] \in AlnumChars \cup {"_"}

\* The call has reached the check of the table name: it is a FileToStore
\* call whose connection is open.
PastConnection(c) ==
    /\ c.req.flow_type = "ff_to_ch"
    /\ Issued(c, "ping", "ok")

\* C25: a FileToStore transfer whose target table name has a character that
\* is neither alphanumeric nor an underscore fails with the invalid target
\* table name error, and no probe, CREATE TABLE or insert is issued.
C25_BadNameRejected ==
    \A r \in Req :
        LET c == ing[r] IN
        (PastConnection(c) /\ ~WellFormedName(c.req.table))
            => /\ FailedWith(c, {"Invalid target table name"})
               /\ c.raised.site = "table_name"
               /\ OpNames(c) \cap {"describe", "create", "insert_df"} = {}

\* The call is a StoreToFile call that failed before its write.
FailedBeforeWrite(c) ==
    /\ c.req.flow_type = "ch_to_ff"
    /\ c.pc = "failed"
    /\ c.raised.site \in {"validate", "connect", "query"}

\* C26: the target file of a StoreToFile request is written only after
\* validation, connection and the read succeeded: a request that fails in
\* one of them opens no write and leaves the files as they were, and a
\* validation failure opens no session and issues no call to the store.
C26_WriteOnlyAfterRead ==
    /\ [](\A r \in Req :
            LET c == ing[r] IN
            /\ (c.req.flow_type = "ch_to_ff" /\ "to_csv" \in OpNames(c))
                   => /\ Issued(c, "get_client", "ok")
                      /\ Issued(c, "ping", "ok")
                      /\ Issued(c, "query_df", "ok")
            /\ FailedBeforeWrite(c) => "to_csv" \notin OpNames(c)
            /\ (FailedBeforeWrite(c) /\ c.raised.site = "validate")
                   => c.ops = <<>> /\ c.session = "none")
    /\ [][/\ \A r \in Req :
               (ing'[r] # ing[r] /\ FailedBeforeWrite(ing'[r])) => files' = files
          /\ files' # files
               => \E r \in Req :
                    /\ ing[r].pc = "write"
                    /\ ing[r].req.flow_type = "ch_to_ff"
                    /\ Issued(ing[r], "query_df", "ok")
                    /\ \A f \in FileNames \ {ing[r].req.file} :
                           files'[f] = files[f]]_vars

\* C26 case: a StoreToFile request whose read failed on an open session,
\* the target file being there from before.
C26_Witness ==
    \E r \in Req :
        /\ FailedBeforeWrite(ing[r])
        /\ ing[r].raised.site = "query"
        /\ Issued(ing[r], "ping", "ok")
        /\ Issued(ing[r], "query_df", "error")
        /\ ing[r].req.file \in FileNames
        /\ files[ing[r].req.file].exists

====
